---- MODULE Spec2Model ----
(***************************************************************************)
(* Model of handler_base: the DatasetHandler export pipeline               *)
(* (dataset_handler.py) and the Params record (params.py).                 *)
(*                                                                         *)
(* Python strings are modelled as sequences of one-character strings, so   *)
(* that strip / replace / re.sub / basename are computed character by      *)
(* character.  A directory is a function from entry names to contents.     *)
(***************************************************************************)
EXTENDS Integers, Sequences, FiniteSets, TLC

(***************************************************************************)
(* Bounds of the model.                                                    *)
(***************************************************************************)
MaxLen == 3
MaxArgs == 7
MaxFiles == 2

(***************************************************************************)
(* Characters.                                                             *)
(***************************************************************************)
Letters == {"a", "b", "c", "d", "e", "f", "g", "h", "i", "j", "k", "l", "m",
            "n", "o", "p", "q", "r", "s", "t", "u", "v", "w", "x", "y", "z",
            "F", "M"}
Digits == {"0", "1", "2", "3", "4", "5", "6", "7", "8", "9"}
\* str.strip() with no argument removes these
Whitespace == {" ", "\t", "\n", "\r", "\f"}
\* the character class [-\w.] of the pattern in clean_file_name
WordChar(c) == c \in Letters \cup Digits \cup {"_"}
InClass(c) == c = "-" \/ WordChar(c) \/ c = "."

(***************************************************************************)
(* clean_file_name: str(file_name).strip().replace(' ', '_') followed by   *)
(* re.sub(r'(?u)[^-\w.]', '_', s).                                         *)
(***************************************************************************)
RECURSIVE lstrip(_)
lstrip(s) ==
    IF s # <<>> /\ Head(s) \in Whitespace THEN lstrip(Tail(s)) ELSE s

RECURSIVE rstrip(_)
rstrip(s) ==
    IF s # <<>> /\ s[Len(s)] \in Whitespace
    THEN rstrip(SubSeq(s, 1, Len(s) - 1))
    ELSE s

strip(s) == rstrip(lstrip(s))

RECURSIVE replace(_, _, _)
replace(s, old, new) ==
    IF s = <<>> THEN <<>>
    ELSE <<IF Head(s) = old THEN new ELSE Head(s)>> \o replace(Tail(s), old, new)

RECURSIVE re_sub(_, _)
re_sub(repl, s) ==
    IF s = <<>> THEN <<>>
    ELSE <<IF InClass(Head(s)) THEN Head(s) ELSE repl>> \o re_sub(repl, Tail(s))

\* a plausible slip: only the left side is stripped
clean_file_name_lstrip(file_name) ==
    re_sub("_", replace(lstrip(file_name), " ", "_"))

clean_file_name(file_name) ==
    LET s == replace(strip(file_name), " ", "_")
    IN  re_sub("_", s)

(***************************************************************************)
(* Params.__init__ (params.py).  The object is a function from attribute   *)
(* names to values; an attribute that was never assigned is Unassigned.    *)
(***************************************************************************)
ParamFields == {"ds_name", "ds_summary", "ds_description", "user_id",
                "output_file", "origin"}
Unassigned == <<"<unassigned>">>
NoParams == [f \in ParamFields |-> Unassigned]
NoException == [kind |-> "none", msg |-> <<>>]
Exception(kind, msg) == [kind |-> kind, msg |-> msg]

\* a plausible slip: the guard is off by one
Params_init_off_by_one(a) ==
    IF Len(a) < 5
    THEN [obj |-> NoParams,
          exc |-> Exception("ValidationException",
                    <<"The tool was passed an insufficient numbers of arguments.">>)]
    ELSE [obj |-> [f \in ParamFields |->
                     CASE f = "ds_name" -> a[1]
                       [] f = "ds_summary" -> a[2]
                       [] f = "ds_description" -> a[3]
                       [] f = "user_id" -> a[4]
                       [] f = "output_file" -> a[5]
                       [] f = "origin" -> IF Len(a) >= 6 THEN a[6] ELSE Unassigned],
          exc |-> NoException]

Params_init(a) ==
    IF Len(a) < 6
    THEN [obj |-> NoParams,
          exc |-> Exception("ValidationException",
                    <<"The tool was passed an insufficient numbers of arguments.">>)]
    ELSE [obj |-> [f \in ParamFields |->
                     CASE f = "ds_name" -> a[1]
                       [] f = "ds_summary" -> a[2]
                       [] f = "ds_description" -> a[3]
                       [] f = "user_id" -> a[4]
                       [] f = "output_file" -> a[5]
                       [] f = "origin" -> a[6]],
          exc |-> NoException]

(***************************************************************************)
(* DatasetHandler.__init__: the fields of a handler.                       *)
(***************************************************************************)
RECURSIVE str_int(_)
str_int(n) ==
    IF n < 10 THEN <<CHOOSE d \in Digits : d = ToString(n)>>
    ELSE str_int(n \div 10) \o <<CHOOSE d \in Digits : d = ToString(n % 10)>>

DATASET_JSON == <<"d", "a", "t", "a", "s", "e", "t", ".", "j", "s", "o", "n">>
META_JSON == <<"m", "e", "t", "a", ".", "j", "s", "o", "n">>
DATAFILES == <<"d", "a", "t", "a", "f", "i", "l", "e", "s">>
TGZ == <<".", "t", "g", "z">>

export_file_root(user_id, timestamp, pid) ==
    <<"d", "a", "t", "a", "s", "e", "t", "_", "u">> \o user_id
        \o <<"_", "t">> \o str_int(timestamp)
        \o <<"_", "p">> \o str_int(pid)

(***************************************************************************)
(* State.                                                                  *)
(*   c_in, c_out        argument and result of a clean_file_name call      *)
(*   args, new_params, new_exc                                             *)
(*                      argument, object and exception of a Params(args)   *)
(*   handler[p]         fields of the DatasetHandler of process p          *)
(*   provider[p]        what the subclass's identify_* methods return      *)
(*   pc[p]              the statement of export() process p is at          *)
(*   cwd[p]             the working directory of process p                 *)
(*   orig_path[p]       the local orig_path of export()                    *)
(*   exc[p]             the exception export() ended with                  *)
(*   started[p], completed[p]                                              *)
(*                      the statements of export() begun / finished        *)
(*   calls[p]           provider and os calls made, in order               *)
(*   vproc[p]           the validation subprocess                          *)
(*   work, tmp, datafiles                                                  *)
(*                      the directories <work>, <work>/tmp and             *)
(*                      <work>/tmp/datafiles                               *)
(***************************************************************************)
VARIABLES c_in, c_out, args, new_params, new_exc,
          handler, provider, pc, cwd, orig_path, exc, started, completed,
          calls, vproc, work, tmp, datafiles

vars == <<c_in, c_out, args, new_params, new_exc,
          handler, provider, pc, cwd, orig_path, exc, started, completed,
          calls, vproc, work, tmp, datafiles>>

unit_vars == <<c_in, c_out, args, new_params, new_exc>>
export_vars == <<handler, provider, pc, cwd, orig_path, exc, started,
                 completed, calls, vproc, work, tmp, datafiles>>

Procs == {1, 2}
None == "None"
WorkDir == "/work"
TmpDir == "/work/tmp"
TMP == <<"t", "m", "p">>
EmptyDir == [n \in {} |-> 0]

\* a directory entry: a directory or a file, who made it, what it holds
Dir(p) == [kind |-> "dir", by |-> p, data |-> <<>>, members |-> {}]
File(p, data) == [kind |-> "file", by |-> p, data |-> data, members |-> {}]
Archive(p, members) ==
    [kind |-> "file", by |-> p, data |-> <<"tgz">>, members |-> members]

Put(dir, name, entry) ==
    [n \in DOMAIN dir \cup {name} |-> IF n = name THEN entry ELSE dir[n]]
Remove(dir, name) == [n \in DOMAIN dir \ {name} |-> dir[n]]

RECURSIVE basename(_)
basename(path) ==
    IF \E i \in 1..Len(path) : path[i] = "/"
    THEN basename(Tail(path))
    ELSE path

(***************************************************************************)
(* export(): how a statement ends.  No statement of export() is inside a   *)
(* try block, so an exception ends the call where it is raised.            *)
(***************************************************************************)
Begin(p, stmt) == started' = [started EXCEPT ![p] = Append(@, stmt)]

Raise(p, e) ==
    /\ pc' = [pc EXCEPT ![p] = "raised"]
    /\ exc' = [exc EXCEPT ![p] = e]
    /\ UNCHANGED completed

Continue(p, stmt, next) ==
    /\ pc' = [pc EXCEPT ![p] = next]
    /\ completed' = [completed EXCEPT ![p] = Append(@, stmt)]
    /\ UNCHANGED exc

Call(p, names) == calls' = [calls EXCEPT ![p] = @ \o names]

(***************************************************************************)
(* validate_datasets                                                       *)
(***************************************************************************)
ExitCodes == {0, 1, 2, -9}
Outputs == {"bad column 3", ""}
NoProcess ==
    [spawned |-> FALSE, stdin |-> <<>>, returncode |-> 0, output |-> <<"", "">>]

\* a plausible slip: every non-zero exit code rejects
rejected_nonzero(returncode) == returncode # 0

rejected(returncode) == returncode = 1

\* a plausible slip: the message is taken from stdout
rejection_message_stdout(output) == output[1]

\* output is the tuple (stdout, stderr); Python's output[1] is the second
rejection_message(output) == output[2]

validate_datasets(p) ==
    /\ pc[p] = "validate"
    /\ Begin(p, "validate")
    /\ IF handler[p].validation_script = None
       THEN /\ Continue(p, "validate", "mkdir_tmp")
            /\ UNCHANGED <<calls, vproc>>
       ELSE /\ Call(p, <<"identify_dataset_files", "Popen">>)
            /\ \/ /\ Raise(p, Exception("OSError", <<"Popen">>))
                  /\ UNCHANGED vproc
               \/ \E rc \in ExitCodes, out \in {"checked"}, errout \in Outputs :
                    /\ vproc' = [vproc EXCEPT ![p] =
                                   [spawned |-> TRUE,
                                    stdin |-> provider[p].files,
                                    returncode |-> rc,
                                    output |-> <<out, errout>>]]
                    /\ IF rejected(rc)
                       THEN Raise(p, Exception("ValidationException",
                                       <<rejection_message(<<out, errout>>)>>))
                       ELSE Continue(p, "validate", "mkdir_tmp")
    /\ UNCHANGED <<unit_vars, handler, provider, cwd, orig_path, work, tmp,
                   datafiles>>

(***************************************************************************)
(* orig_path = os.getcwd(); os.mkdir("tmp")                                *)
(* "tmp" is relative: export() is started in WorkDir, so it is             *)
(* <work>/tmp.  mkdir fails when the name exists.                          *)
(***************************************************************************)
\* a plausible slip: an existing directory is reused (as os.makedirs with
\* exist_ok would)
mkdir_tmp_reuse(p) ==
    /\ pc[p] = "mkdir_tmp"
    /\ Begin(p, "mkdir_tmp")
    /\ orig_path' = [orig_path EXCEPT ![p] = cwd[p]]
    /\ work' = IF TMP \in DOMAIN work THEN work ELSE Put(work, TMP, Dir(p))
    /\ Continue(p, "mkdir_tmp", "package")
    /\ UNCHANGED <<unit_vars, handler, provider, cwd, calls, vproc, tmp,
                   datafiles>>

mkdir_tmp(p) ==
    /\ pc[p] = "mkdir_tmp"
    /\ Begin(p, "mkdir_tmp")
    /\ orig_path' = [orig_path EXCEPT ![p] = cwd[p]]
    /\ IF TMP \in DOMAIN work
       THEN /\ Raise(p, Exception("OSError", <<"File exists: 'tmp'">>))
            /\ UNCHANGED <<work, tmp>>
       ELSE /\ work' = Put(work, TMP, Dir(p))
            /\ tmp' = EmptyDir
            /\ Continue(p, "mkdir_tmp", "package")
    /\ UNCHANGED <<unit_vars, handler, provider, cwd, calls, vproc, datafiles>>

(***************************************************************************)
(* package_data_files                                                      *)
(* shutil.copy(src, dst) copies into dst when dst is a directory, under    *)
(* the source's base name; otherwise it creates or overwrites dst.         *)
(* "tmp/datafiles/" + name is a directory when name is "" or "." (the      *)
(* datafiles directory) or ".." (the staging directory).                   *)
(***************************************************************************)
shutil_copy(p, file, dirs) ==
    LET dst == clean_file_name(file.name)
        entry == File(p, file.path)
    IN  IF dst \in {<<>>, <<".">>}
        THEN [dirs EXCEPT !.datafiles = Put(@, basename(file.path), entry)]
        ELSE IF dst = <<".", ".">>
        THEN [dirs EXCEPT !.tmp = Put(@, basename(file.path), entry)]
        ELSE [dirs EXCEPT !.datafiles = Put(@, dst, entry)]

\* the state of the two directories after the first k files are copied
RECURSIVE copy_files(_, _, _, _)
copy_files(p, files, k, dirs) ==
    IF k = 0 THEN dirs
    ELSE shutil_copy(p, files[k], copy_files(p, files, k - 1, dirs))

\* a plausible slip: the loop stops one file short
package_data_files_short(p) ==
    /\ pc[p] = "package"
    /\ Begin(p, "package")
    /\ LET files == provider[p].files
           made == [tmp |-> Put(tmp, DATAFILES, Dir(p)), datafiles |-> EmptyDir]
           after == copy_files(p, files, Len(files) - 1, made)
       IN  /\ Call(p, <<"os.mkdir", "identify_dataset_files">>)
           /\ tmp' = after.tmp
           /\ datafiles' = after.datafiles
           /\ Continue(p, "package", "meta")
    /\ UNCHANGED <<unit_vars, handler, provider, cwd, orig_path, vproc, work>>

package_data_files(p) ==
    /\ pc[p] = "package"
    /\ Begin(p, "package")
    /\ IF DATAFILES \in DOMAIN tmp
       THEN /\ Call(p, <<"os.mkdir">>)
            /\ Raise(p, Exception("OSError", <<"File exists: 'tmp/datafiles'">>))
            /\ UNCHANGED <<tmp, datafiles>>
       ELSE \E k \in 0..Len(provider[p].files) :
              \* the source of file k+1 cannot be read (k < N), or all can
              LET files == provider[p].files
                  made == [tmp |-> Put(tmp, DATAFILES, Dir(p)),
                           datafiles |-> EmptyDir]
                  after == copy_files(p, files, k, made)
              IN  /\ Call(p, <<"os.mkdir", "identify_dataset_files">>)
                  /\ tmp' = after.tmp
                  /\ datafiles' = after.datafiles
                  /\ IF k = Len(files)
                     THEN Continue(p, "package", "meta")
                     ELSE Raise(p, Exception("IOError", files[k + 1].path))
    /\ UNCHANGED <<unit_vars, handler, provider, cwd, orig_path, vproc, work>>

(***************************************************************************)
(* create_metadata_json_file: open(meta_path, "w+") creates the file, then *)
(* json.dump writes it; either can fail.                                   *)
(***************************************************************************)
WriteOutcomes == {"open fails", "write fails", "ok"}

\* a plausible slip: a failed write is caught and export() goes on
create_metadata_json_file_caught(p) ==
    /\ pc[p] = "meta"
    /\ Begin(p, "meta")
    /\ \E outcome \in WriteOutcomes :
         /\ tmp' = IF outcome = "open fails" THEN tmp
                   ELSE Put(tmp, META_JSON, File(p, <<"meta">>))
         /\ IF outcome = "ok"
            THEN Continue(p, "meta", "dataset")
            ELSE /\ pc' = [pc EXCEPT ![p] = "dataset"]
                 /\ exc' = [exc EXCEPT ![p] = Exception("IOError", META_JSON)]
                 /\ UNCHANGED completed
    /\ Call(p, <<"open">>)
    /\ UNCHANGED <<unit_vars, handler, provider, cwd, orig_path, vproc, work,
                   datafiles>>

create_metadata_json_file(p) ==
    /\ pc[p] = "meta"
    /\ Begin(p, "meta")
    /\ \E outcome \in WriteOutcomes :
         /\ tmp' = IF outcome = "open fails" THEN tmp
                   ELSE Put(tmp, META_JSON, File(p, <<"meta">>))
         /\ IF outcome = "ok"
            THEN Continue(p, "meta", "dataset")
            ELSE Raise(p, Exception("IOError", META_JSON))
    /\ Call(p, <<"open">>)
    /\ UNCHANGED <<unit_vars, handler, provider, cwd, orig_path, vproc, work,
                   datafiles>>

(***************************************************************************)
(* create_dataset_json_file                                                *)
(* In the order of the code: the sizes of the source paths are summed      *)
(* (os.stat of each), then the projects are checked against the supported  *)
(* projects, then dataset.json is opened and the descriptor, which calls   *)
(* the provider and os.stat again, is dumped into it.                      *)
(***************************************************************************)
NoConstraint == [none |-> TRUE, members |-> {}]
Constraint(S) == [none |-> FALSE, members |-> S]

Rejected(projects, supported) ==
    {i \in 1..Len(projects) : projects[i] \notin supported.members}

\* a plausible slip: the loop keeps the last offending project
first_rejected_last(projects, supported) ==
    CHOOSE i \in Rejected(projects, supported) :
        \A j \in Rejected(projects, supported) : j <= i

\* the project the loop of lines 162-165 raises for
first_rejected(projects, supported) ==
    CHOOSE i \in Rejected(projects, supported) :
        \A j \in Rejected(projects, supported) : i <= j

create_dataset_json_file(p) ==
    /\ pc[p] = "dataset"
    /\ Begin(p, "dataset")
    /\ LET projects == provider[p].projects
           supported == provider[p].supported
       IN  \/ \* a source path cannot be stat-ed (the source files belong
              \* to the upstream environment: any access to them may fail)
              /\ Call(p, <<"identify_dataset_files", "os.stat">>)
              /\ Raise(p, Exception("OSError", <<"os.stat">>))
              /\ UNCHANGED tmp
           \/ /\ ~supported.none
              /\ Rejected(projects, supported) # {}
              /\ Call(p, <<"identify_dataset_files", "os.stat",
                           "identify_supported_projects", "identify_projects">>)
              /\ Raise(p, Exception("ValidationException",
                     <<"Sorry, you cannot export this kind of data to ",
                       projects[first_rejected(projects, supported)]>>))
              /\ UNCHANGED tmp
           \/ /\ supported.none \/ Rejected(projects, supported) = {}
              /\ Call(p, <<"identify_dataset_files", "os.stat",
                           "identify_supported_projects", "identify_projects",
                           "open">>)
              /\ \E outcome \in WriteOutcomes :
                   /\ tmp' = IF outcome = "open fails" THEN tmp
                             ELSE Put(tmp, DATASET_JSON, File(p, <<"dataset">>))
                   /\ IF outcome = "ok"
                      THEN Continue(p, "dataset", "chdir_tmp")
                      ELSE Raise(p, Exception("IOError", DATASET_JSON))
    /\ UNCHANGED <<unit_vars, handler, provider, cwd, orig_path, vproc, work,
                   datafiles>>

(***************************************************************************)
(* os.chdir(temp_path): the directory was made and filled by this call,    *)
(* so the change of directory itself has no failing outcome.               *)
(***************************************************************************)
chdir_tmp(p) ==
    /\ pc[p] = "chdir_tmp"
    /\ Begin(p, "chdir_tmp")
    /\ cwd' = [cwd EXCEPT ![p] = TmpDir]
    /\ Continue(p, "chdir_tmp", "tarball")
    /\ UNCHANGED <<unit_vars, handler, provider, orig_path, calls, vproc, work,
                   tmp, datafiles>>

(***************************************************************************)
(* create_tarball: tarfile.open(export_file_root + ".tgz", "w:gz") in the  *)
(* working directory, then add meta.json, dataset.json and datafiles (a    *)
(* directory is added with everything in it).                              *)
(***************************************************************************)
TarItems == <<META_JSON, DATASET_JSON, DATAFILES>>

tar_add(item) ==
    IF item = DATAFILES
    THEN {<<DATAFILES>>} \cup {<<DATAFILES, n>> : n \in DOMAIN datafiles}
    ELSE {<<item>>}

\* the members after the first k items are added
tar_members(k) == UNION {tar_add(TarItems[i]) : i \in 1..k}

archive_name(p) == handler[p].export_file_root \o TGZ

create_tarball(p) ==
    /\ pc[p] = "tarball"
    /\ Begin(p, "tarball")
    /\ cwd[p] = TmpDir
    /\ \/ \* the archive cannot be created
          /\ Raise(p, Exception("IOError", archive_name(p)))
          /\ UNCHANGED tmp
       \/ \E k \in 0..Len(TarItems) :
            \* adding item k+1 fails (k < 3), or all are added
            /\ \A i \in 1..k : TarItems[i] \in DOMAIN tmp
            /\ tmp' = Put(tmp, archive_name(p), Archive(p, tar_members(k)))
            /\ IF k = Len(TarItems)
               THEN Continue(p, "tarball", "move")
               ELSE Raise(p, Exception("IOError", TarItems[k + 1]))
    /\ UNCHANGED <<unit_vars, handler, provider, cwd, orig_path, calls, vproc,
                   work, datafiles>>

(***************************************************************************)
(* shutil.move(export_file_root + ".tgz", orig_path): the destination is a *)
(* directory, so the file goes into it under its own name; an existing     *)
(* entry of that name is an error; otherwise the file is renamed, which    *)
(* happens entirely or not at all (tmp was made inside orig_path, on the   *)
(* same file system).  The name is relative: it is looked up in the        *)
(* working directory, which is the staging directory by now.               *)
(***************************************************************************)
\* a plausible slip: the archive is copied and the copy is left behind
\* when the move fails
shutil_move_copy(p) ==
    /\ pc[p] = "move"
    /\ Begin(p, "move")
    /\ cwd[p] = TmpDir /\ orig_path[p] = WorkDir
    /\ work' = Put(work, archive_name(p), tmp[archive_name(p)])
    /\ \/ /\ tmp' = Remove(tmp, archive_name(p))
          /\ Continue(p, "move", "chdir_orig")
       \/ /\ Raise(p, Exception("OSError", archive_name(p)))
          /\ UNCHANGED tmp
    /\ UNCHANGED <<unit_vars, handler, provider, cwd, orig_path, calls, vproc,
                   datafiles>>

shutil_move(p) ==
    /\ pc[p] = "move"
    /\ Begin(p, "move")
    /\ cwd[p] = TmpDir /\ orig_path[p] = WorkDir
    /\ IF archive_name(p) \in DOMAIN work
       THEN /\ Raise(p, Exception("shutil.Error",
                         <<"Destination path already exists">>))
            /\ UNCHANGED <<work, tmp>>
       ELSE \/ /\ work' = Put(work, archive_name(p), tmp[archive_name(p)])
               /\ tmp' = Remove(tmp, archive_name(p))
               /\ Continue(p, "move", "chdir_orig")
            \/ /\ Raise(p, Exception("OSError", archive_name(p)))
               /\ UNCHANGED <<work, tmp>>
    /\ UNCHANGED <<unit_vars, handler, provider, cwd, orig_path, calls, vproc,
                   datafiles>>

(***************************************************************************)
(* os.chdir(orig_path): orig_path is the directory export() started in and *)
(* has just received the archive; the change itself has no failing outcome.*)
(***************************************************************************)
\* a plausible slip: the working directory is not put back
chdir_orig_forgotten(p) ==
    /\ pc[p] = "chdir_orig"
    /\ Begin(p, "chdir_orig")
    /\ Continue(p, "chdir_orig", "returned")
    /\ UNCHANGED <<unit_vars, handler, provider, cwd, orig_path, calls, vproc,
                   work, tmp, datafiles>>

chdir_orig(p) ==
    /\ pc[p] = "chdir_orig"
    /\ Begin(p, "chdir_orig")
    /\ cwd' = [cwd EXCEPT ![p] = orig_path[p]]
    /\ Continue(p, "chdir_orig", "returned")
    /\ UNCHANGED <<unit_vars, handler, provider, orig_path, calls, vproc, work,
                   tmp, datafiles>>

(***************************************************************************)
(* The handler after DatasetHandler.__init__, and the providers and        *)
(* directories the exports are run against.                                *)
(***************************************************************************)
DefaultArgs == << <<"n">>, <<"s">>, <<"d">>, <<"7">>, <<"o">>, <<"g">> >>
Timestamp == 1667
Pid(p) == 40 + p

DatasetHandler_init(validation_script, a, timestamp, pid) ==
    LET params == Params_init(a).obj
    IN  [type |-> "type", version |-> "1.0",
         validation_script |-> validation_script,
         params |-> params,
         timestamp |-> timestamp,
         export_file_root |-> export_file_root(params["user_id"], timestamp, pid)]

\* target names a provider may give: two that differ only in characters
\* that are rewritten, plain ones, and the ones that name a directory
TargetNames == { <<"a", " ", "b">>, <<"a", "/", "b">>, <<"c">>, <<"d", ".", "t">>,
                 <<" ">>, <<".", ".">> }
SrcPath(i) == <<"/", "g", "/", "f">> \o str_int(i)
FileLists ==
    UNION { { [i \in 1..n |-> [name |-> names[i], path |-> SrcPath(i)]] :
                names \in [1..n -> TargetNames] } : n \in 1..MaxFiles }
ProjectLists == { <<"ProjectA">>, <<"ProjectB">>, <<"ProjectA", "ProjectB">>,
                  <<"ProjectC", "ProjectB">> }
SupportedSets == { NoConstraint, Constraint({"ProjectA"}) }
Providers ==
    [files : FileLists, projects : ProjectLists, supported : SupportedSets]
ValidationScripts == {None, "validate.py"}

\* what a previous export leaves in the working directory
StaleTmp == Put(EmptyDir, TMP, Dir(0))

NotCalled == <<"<not called>">>

UnitIdle ==
    /\ c_in = <<>> /\ c_out = NotCalled
    /\ args = <<>> /\ new_params = NoParams /\ new_exc = NoException

ExportIdle ==
    /\ handler = [p \in Procs |-> DatasetHandler_init(None, DefaultArgs, Timestamp, Pid(p))]
    /\ provider = [p \in Procs |->
                     [files |-> <<[name |-> <<"c">>, path |-> SrcPath(1)]>>,
                      projects |-> <<"ProjectA">>, supported |-> NoConstraint]]
    /\ pc = [p \in Procs |-> "idle"]
    /\ cwd = [p \in Procs |-> WorkDir]
    /\ orig_path = [p \in Procs |-> ""]
    /\ exc = [p \in Procs |-> NoException]
    /\ started = [p \in Procs |-> <<>>]
    /\ completed = [p \in Procs |-> <<>>]
    /\ calls = [p \in Procs |-> <<>>]
    /\ vproc = [p \in Procs |-> NoProcess]
    /\ work = EmptyDir /\ tmp = EmptyDir /\ datafiles = EmptyDir

\* the processes of Procs in `active` are about to call export() in WorkDir
ExportInit(active, scripts, providers, works) ==
    /\ \E script \in [Procs -> scripts] :
         /\ \A p \in Procs \ active : script[p] = None
         /\ handler = [p \in Procs |->
                         DatasetHandler_init(script[p], DefaultArgs, Timestamp, Pid(p))]
    /\ provider \in [Procs -> providers]
    /\ \A p \in Procs \ active :
         provider[p] = [files |-> <<[name |-> <<"c">>, path |-> SrcPath(1)]>>,
                        projects |-> <<"ProjectA">>, supported |-> NoConstraint]
    /\ pc = [p \in Procs |-> IF p \in active THEN "validate" ELSE "idle"]
    /\ cwd = [p \in Procs |-> WorkDir]
    /\ orig_path = [p \in Procs |-> ""]
    /\ exc = [p \in Procs |-> NoException]
    /\ started = [p \in Procs |-> <<>>]
    /\ completed = [p \in Procs |-> <<>>]
    /\ calls = [p \in Procs |-> <<>>]
    /\ vproc = [p \in Procs |-> NoProcess]
    /\ work \in works /\ tmp = EmptyDir /\ datafiles = EmptyDir

export(p) ==
    \/ validate_datasets(p)
    \/ mkdir_tmp(p)
    \/ package_data_files(p)
    \/ create_metadata_json_file(p)
    \/ create_dataset_json_file(p)
    \/ chdir_tmp(p)
    \/ create_tarball(p)
    \/ shutil_move(p)
    \/ chdir_orig(p)

(***************************************************************************)
(* Spec: one export() in a working directory that may hold the tmp of an   *)
(* earlier export.                                                         *)
(***************************************************************************)
Init == UnitIdle /\ ExportInit({1}, ValidationScripts, Providers, {EmptyDir, StaleTmp})
Next == \E p \in Procs : export(p)
Spec == Init /\ [][Next]_vars

(***************************************************************************)
(* SpecTwo: two processes call export() in the same working directory,     *)
(* which holds no tmp; their statements interleave in every order.         *)
(***************************************************************************)
TwoProviders ==
    [files : { <<[name |-> <<"c">>, path |-> SrcPath(1)]>>,
               <<[name |-> <<"c">>, path |-> SrcPath(1)],
                 [name |-> <<"a", " ", "b">>, path |-> SrcPath(2)]>> },
     projects : { <<"ProjectA">> },
     supported : SupportedSets]
InitTwo == UnitIdle /\ ExportInit(Procs, ValidationScripts, TwoProviders, {EmptyDir})
SpecTwo == InitTwo /\ [][Next]_vars

(***************************************************************************)
(* SpecClean: one call of clean_file_name on a string over the alphabet    *)
(* below (a letter, a digit, the three allowed marks, space, tab, and two  *)
(* punctuation marks), or on one of the documented examples.               *)
(***************************************************************************)
CleanAlphabet == {"a", "7", "-", "_", ".", " ", "\t", "/", "!"}
Strings(S, n) == UNION {[1..k -> S] : k \in 0..n}
Example1 == <<"M", "y", " ", "F", "i", "l", "e", "!", ".", "c", "s", "v">>
Example2 == <<" ", "a", "/", "b", ".", "t", "x", "t", " ">>
CleanInputs == Strings(CleanAlphabet, MaxLen) \cup {Example1, Example2}

CleanCall ==
    /\ c_out = NotCalled
    /\ c_out' = clean_file_name(c_in)
    /\ UNCHANGED <<c_in, args, new_params, new_exc, export_vars>>

InitClean ==
    /\ c_in \in CleanInputs /\ c_out = NotCalled
    /\ args = <<>> /\ new_params = NoParams /\ new_exc = NoException
    /\ ExportIdle
NextClean == CleanCall
SpecClean == InitClean /\ [][NextClean]_vars

(***************************************************************************)
(* SpecParams: one Params(args) on a list of up to MaxArgs values.         *)
(***************************************************************************)
ArgValues == { <<"x">>, <<"y">> }
ArgLists == Strings(ArgValues, MaxArgs)

ParamsCall ==
    /\ new_params = NoParams /\ new_exc = NoException
    /\ new_params' = Params_init(args).obj
    /\ new_exc' = Params_init(args).exc
    /\ UNCHANGED <<c_in, c_out, args, export_vars>>

InitParams ==
    /\ args \in ArgLists /\ new_params = NoParams /\ new_exc = NoException
    /\ c_in = <<>> /\ c_out = NotCalled
    /\ ExportIdle
NextParams == ParamsCall
SpecParams == InitParams /\ [][NextParams]_vars

(***************************************************************************)
(* Properties.                                                             *)
(***************************************************************************)
Range(f) == {f[i] : i \in DOMAIN f}
IsPrefix(a, b) == Len(a) <= Len(b) /\ a = SubSeq(b, 1, Len(a))
Running == {p \in Procs : pc[p] # "idle"}
\* the statement of export() that raised
FailedAt(p, stmt) ==
    pc[p] = "raised" /\ started[p] # <<>> /\ started[p][Len(started[p])] = stmt
Finished(p, stmt) == stmt \in Range(completed[p])
\* what process p has put into the working directory and the staging tree
MadeBy(p) ==
    {n \in DOMAIN work : work[n].by = p}
        \cup {n \in DOMAIN tmp : tmp[n].by = p}
        \cup {n \in DOMAIN datafiles : datafiles[n].by = p}
ArchivesOf(p) == {n \in DOMAIN work : work[n].kind = "file" /\ work[n].by = p}

C3_RejectionCarriesStderr ==
    \A p \in Running :
        /\ (vproc[p].spawned /\ vproc[p].returncode = 1) =>
              /\ pc[p] = "raised"
              /\ exc[p] = Exception("ValidationException", <<vproc[p].output[2]>>)
              /\ started[p] = <<"validate">>
              /\ MadeBy(p) = {}
        /\ (vproc[p].spawned /\ vproc[p].returncode = 0) =>
              Finished(p, "validate")

\* C3 witness: rejected with "bad column 3" on stderr
C3_Witness ==
    \E p \in Running :
        /\ vproc[p].spawned /\ vproc[p].returncode = 1
        /\ vproc[p].output[2] = "bad column 3"
        /\ exc[p].msg = <<"bad column 3">>

\* C10: export() gets past the validation exactly when no script is
\* configured (then nothing is spawned and the provider is not asked for
\* the files) or the subprocess ended with an exit code other than 1.
C10_OnlyExitCodeOneRejects ==
    \A p \in Running :
        /\ pc[p] # "validate" =>
              (Finished(p, "validate") <=>
                  \/ handler[p].validation_script = None
                  \/ vproc[p].spawned /\ vproc[p].returncode # 1)
        /\ handler[p].validation_script = None =>
              /\ ~vproc[p].spawned
              /\ "Popen" \notin Range(calls[p])
              /\ pc[p] = "mkdir_tmp" => calls[p] = <<>>

\* C10 witness: killed by a signal (-9), and the archive is delivered
C10_Witness ==
    \E p \in Running :
        vproc[p].spawned /\ vproc[p].returncode = -9 /\ pc[p] = "returned"

StepOrder == <<"validate", "mkdir_tmp", "package", "meta", "dataset",
               "chdir_tmp", "tarball", "move", "chdir_orig">>

\* C7: the statements of export() begin in the fixed order, each once,
\* each only after the one before it finished; a failure is the last
\* statement begun.
C7_LinearOrder ==
    \A p \in Running :
        /\ IsPrefix(started[p], StepOrder)
        /\ IsPrefix(completed[p], started[p])
        /\ pc[p] = "raised" => Len(started[p]) = Len(completed[p]) + 1
        /\ pc[p] # "raised" => started[p] = completed[p]
        /\ pc[p] = "returned" => completed[p] = StepOrder

\* C7 witness: archive creation failed after six statements finished
C7_Witness ==
    \E p \in Running :
        /\ FailedAt(p, "tarball")
        /\ completed[p] = SubSeq(StepOrder, 1, 6)

\* C8: when export() ends, the working directory is the one it started in
\* exactly when no failure came after the switch into the staging
\* directory.
C8_CwdRestoredUnlessLateFailure ==
    \A p \in Running :
        pc[p] \in {"returned", "raised"} =>
            /\ cwd[p] = WorkDir <=>
                  ~(pc[p] = "raised" /\ Finished(p, "chdir_tmp"))
            /\ (FailedAt(p, "tarball") \/ FailedAt(p, "move")) => cwd[p] = TmpDir

\* C8 witness: the relocation failed and the process is left in tmp
C8_Witness ==
    \E p \in Running : FailedAt(p, "move") /\ cwd[p] = TmpDir

CleanNames(p) ==
    {clean_file_name(provider[p].files[i].name) : i \in 1..Len(provider[p].files)}
OrdinaryName(n) == n \notin {<<>>, <<".">>, <<".", ".">>}
Staged(p) ==
    /\ {META_JSON, DATASET_JSON, DATAFILES} \subseteq DOMAIN tmp
    /\ {<<META_JSON>>, <<DATASET_JSON>>, <<DATAFILES>>}
          \subseteq work[archive_name(p)].members
    /\ {m[2] : m \in {x \in work[archive_name(p)].members : Len(x) = 2}}
          = DOMAIN datafiles

\* C2 as claimed: a successful export of N file references, whatever their
\* target names, leaves meta.json, dataset.json and a datafiles directory
\* of exactly N entries in the staging directory and in the archive.
C2_ExactlyNEntries ==
    \A p \in Running :
        pc[p] = "returned" =>
            /\ Staged(p)
            /\ Cardinality(DOMAIN datafiles) = Len(provider[p].files)

\* C2 as amended: a successful export leaves meta.json, dataset.json and
\* datafiles in the staging directory and in the archive; datafiles holds
\* at most N entries, and one entry per distinct sanitized target name
\* when every sanitized name is an ordinary file name (not empty, "." or
\* ".."), hence N entries exactly when those names are pairwise distinct.
C2_OneEntryPerCleanName ==
    \A p \in Running :
        pc[p] = "returned" =>
            /\ Staged(p)
            /\ Cardinality(DOMAIN datafiles) <= Len(provider[p].files)
            /\ (\A n \in CleanNames(p) : OrdinaryName(n)) =>
                  /\ DOMAIN datafiles = CleanNames(p)
                  /\ Cardinality(CleanNames(p)) = Len(provider[p].files) =>
                        Cardinality(DOMAIN datafiles) = Len(provider[p].files)

\* C2 witness: "a b" and "a/b" are both staged as a_b, one entry for two
C2_Witness ==
    \E p \in Running :
        /\ pc[p] = "returned"
        /\ Len(provider[p].files) = 2
        /\ provider[p].files[1].name = <<"a", " ", "b">>
        /\ provider[p].files[2].name = <<"a", "/", "b">>
        /\ DOMAIN datafiles = {<<"a", "_", "b">>}

ConstraintViolated(p) ==
    /\ ~provider[p].supported.none
    /\ \E i \in 1..Len(provider[p].projects) :
          provider[p].projects[i] \notin provider[p].supported.members
DatasetStepOver(p) == "dataset" \in Range(started[p]) /\ pc[p] # "dataset"
\* position of the first call of that name, 0 when there is none
FirstCall(p, name) ==
    IF name \in Range(calls[p])
    THEN CHOOSE i \in 1..Len(calls[p]) :
            calls[p][i] = name /\ \A j \in 1..(i - 1) : calls[p][j] # name
    ELSE 0

\* C4 as claimed: when a project is outside the supported set, building
\* the descriptor fails with a ValidationException naming it, before any
\* source path is stat-ed and before dataset.json is opened, whatever the
\* state of the source paths.
C4_ConstraintBeforeAnyFile ==
    \A p \in Running :
        (DatasetStepOver(p) /\ ConstraintViolated(p)) =>
            /\ FailedAt(p, "dataset")
            /\ exc[p].kind = "ValidationException"
            /\ "os.stat" \notin Range(calls[p])
            /\ DATASET_JSON \notin DOMAIN tmp

\* C4 as amended: building the descriptor first stats every source path,
\* and a failure there is raised as such whatever the projects are; only
\* then is the project constraint evaluated, and a project outside the
\* supported set makes the build fail with a ValidationException naming
\* the first such project, before dataset.json is opened.
C4_ConstraintAfterSizeBeforeOpen ==
    \A p \in Running :
        /\ (DatasetStepOver(p) /\ ConstraintViolated(p)) =>
              /\ FailedAt(p, "dataset")
              /\ exc[p].kind \in {"ValidationException", "OSError"}
              /\ DATASET_JSON \notin DOMAIN tmp
        /\ (FailedAt(p, "dataset") /\ exc[p].kind = "ValidationException") =>
              /\ ConstraintViolated(p)
              /\ \E i \in 1..Len(provider[p].projects) :
                    /\ exc[p].msg[2] = provider[p].projects[i]
                    /\ provider[p].projects[i] \notin provider[p].supported.members
                    /\ \A j \in 1..(i - 1) :
                          provider[p].projects[j] \in provider[p].supported.members
              /\ 0 < FirstCall(p, "os.stat")
              /\ FirstCall(p, "os.stat") < FirstCall(p, "identify_supported_projects")
              /\ DATASET_JSON \notin DOMAIN tmp
        /\ (FailedAt(p, "dataset") /\ exc[p].kind = "OSError") =>
              /\ "identify_supported_projects" \notin Range(calls[p])
              /\ DATASET_JSON \notin DOMAIN tmp

\* C4 witness: ProjectC and ProjectB are both unsupported; ProjectC, the
\* first, is named, after the sizes were taken
C4_Witness ==
    \E p \in Running :
        /\ FailedAt(p, "dataset")
        /\ provider[p].projects = <<"ProjectC", "ProjectB">>
        /\ exc[p] = Exception("ValidationException",
                      <<"Sorry, you cannot export this kind of data to ", "ProjectC">>)
        /\ "os.stat" \in Range(calls[p])

\* C9: of two exports started in the same working directory, at most one
\* gets past the creation of tmp and delivers an archive; one that finds
\* tmp there raises an OSError at that statement and has put nothing into
\* the working directory or the other's staging tree.
C9_OneExportWinsTmp ==
    /\ Cardinality({p \in Running : Finished(p, "mkdir_tmp")}) <= 1
    /\ Cardinality({p \in Running : pc[p] = "returned"}) <= 1
    /\ Cardinality({n \in DOMAIN work : work[n].kind = "file"}) <= 1
    /\ \A p \in Running :
          /\ (Finished(p, "validate") /\ pc[p] # "mkdir_tmp"
                /\ ~Finished(p, "mkdir_tmp")) =>
                /\ FailedAt(p, "mkdir_tmp")
                /\ exc[p].kind = "OSError"
                /\ MadeBy(p) = {}
          /\ ~Finished(p, "mkdir_tmp") => MadeBy(p) = {}

\* C9 witness: one export delivered its archive, the other failed on tmp
C9_Witness ==
    \E p, q \in Running :
        /\ p # q
        /\ pc[p] = "returned" /\ ArchivesOf(p) = {archive_name(p)}
        /\ FailedAt(q, "mkdir_tmp") /\ exc[q].kind = "OSError"

Min(S) == CHOOSE x \in S : \A y \in S : x <= y
Max(S) == CHOOSE x \in S : \A y \in S : y <= x
\* the reference: what is left after trimming, each character kept if
\* it is a letter, digit, underscore, hyphen or period, else an underscore
Trimmed(s) ==
    LET keep == {i \in 1..Len(s) : s[i] \notin Whitespace}
    IN  IF keep = {} THEN <<>> ELSE SubSeq(s, Min(keep), Max(keep))
Allowed(c) == c \in Letters \cup Digits \cup {"_", "-", "."}
Reference(s) ==
    [i \in 1..Len(Trimmed(s)) |->
        IF Allowed(Trimmed(s)[i]) THEN Trimmed(s)[i] ELSE "_"]

\* C6: clean_file_name agrees with the reference on every input: the
\* result has the length of the trimmed input, holds only allowed
\* characters, and the two documented examples come out as documented.
C6_CleanMatchesReference ==
    c_out # NotCalled =>
        /\ c_out = Reference(c_in)
        /\ Len(c_out) = Len(Trimmed(c_in))
        /\ \A i \in 1..Len(c_out) : Allowed(c_out[i])
        /\ c_in = Example1 =>
              c_out = <<"M", "y", "_", "F", "i", "l", "e", "_", ".", "c", "s", "v">>
        /\ c_in = Example2 => c_out = <<"a", "_", "b", ".", "t", "x", "t">>

\* C6 witness: " a/b.txt " came out as "a_b.txt"
C6_Witness ==
    /\ c_in = Example2
    /\ c_out = <<"a", "_", "b", ".", "t", "x", "t">>

\* C5: Params on fewer than six values raises and assigns no attribute;
\* on six or more it raises nothing and the six attributes are the first
\* six values in order, whatever follows them.
C5_ParamsNeedsSix ==
    (new_params # NoParams \/ new_exc # NoException) =>
        IF Len(args) < 6
        THEN /\ new_exc.kind = "ValidationException"
             /\ \A f \in ParamFields : new_params[f] = Unassigned
        ELSE /\ new_exc = NoException
             /\ DOMAIN new_params = ParamFields
             /\ new_params["ds_name"] = args[1]
             /\ new_params["ds_summary"] = args[2]
             /\ new_params["ds_description"] = args[3]
             /\ new_params["user_id"] = args[4]
             /\ new_params["output_file"] = args[5]
             /\ new_params["origin"] = args[6]

\* C5 witness: seven values, the seventh unlike the sixth, six attributes set
C5_Witness ==
    /\ Len(args) = 7
    /\ args[7] # args[6]
    /\ new_params["origin"] = args[6]
    /\ new_exc = NoException

====
